---- MODULE Spec2Model ----
(***************************************************************************)
(* Right-to-Repair bill tracker (RtR4.py): the script's load -> resolve    *)
(* -> convert -> sidebar -> filter -> render pipeline as a state machine.  *)
(*                                                                         *)
(* Strings that the script compares or parses (event dates,                *)
(* last_action_date, year cells) are sequences of one-character strings,   *)
(* so that Python's code-point ordering and the date parser are computed.  *)
(* Timestamps are integers yyyymmdd (chronological order is <), NaT is 0.  *)
(***************************************************************************)
EXTENDS Integers, Sequences, FiniteSets, TLC

VARIABLES
    files,            \* bills_raw/*.json in glob order (input, never written)
    csv,              \* rows of bills_summary.csv as read (input, never written)
    pc,               \* position of the script run
    fi,               \* index of the next file of the scan loop
    start_map,        \* key -> min(dates), a string
    end_map,          \* key -> max(dates), a string
    df,               \* the module-level dataframe, a sequence of rows
    available_years,  \* options of the year multiselect
    state_options,    \* options of the state multiselect
    widgets_set,      \* TRUE once the user has set a widget in this session
    year_selection,
    state_selection,
    comp_selection,
    filtered,         \* df[...] .copy()
    tl,               \* filtered.copy() with bill_label
    metrics,          \* the three st.metric values
    loaded            \* history: df as the session's first run loaded it

vars == <<files, csv, pc, fi, start_map, end_map, df, available_years,
          state_options, widgets_set, year_selection, state_selection,
          comp_selection, filtered, tl, metrics, loaded>>

-----------------------------------------------------------------------------
(* Bounds of the explored inputs *)

MaxRows == 2
MaxFiles == 2
MaxRowsUI == 2
MaxFilesUI == 1

-----------------------------------------------------------------------------
(* Python strings *)

Ord(c) ==
    CASE c = " " -> 32
      [] c = "-" -> 45
      [] c = "/" -> 47
      [] c = "0" -> 48
      [] c = "1" -> 49
      [] c = "2" -> 50
      [] c = "3" -> 51
      [] c = "4" -> 52
      [] c = "5" -> 53
      [] c = "6" -> 54
      [] c = "7" -> 55
      [] c = "8" -> 56
      [] c = "9" -> 57
      [] c = "a" -> 97
      [] c = "n" -> 110

IsDigit(c) == Ord(c) >= 48 /\ Ord(c) <= 57

DigitVal(c) == Ord(c) - 48

\* str < str: lexicographic on code points, a proper prefix is smaller
RECURSIVE StrLess(_, _)
StrLess(a, b) ==
    IF b = <<>> THEN FALSE
    ELSE IF a = <<>> THEN TRUE
    ELSE IF Ord(Head(a)) # Ord(Head(b)) THEN Ord(Head(a)) < Ord(Head(b))
    ELSE StrLess(Tail(a), Tail(b))

\* min(dates): the first smallest element
RECURSIVE PyMin(_)
PyMin(s) ==
    IF Len(s) = 1 THEN s[1]
    ELSE LET m == PyMin(SubSeq(s, 1, Len(s) - 1))
         IN  IF StrLess(s[Len(s)], m) THEN s[Len(s)] ELSE m

\* max(dates): the first largest element
RECURSIVE PyMax(_)
PyMax(s) ==
    IF Len(s) = 1 THEN s[1]
    ELSE LET m == PyMax(SubSeq(s, 1, Len(s) - 1))
         IN  IF StrLess(m, s[Len(s)]) THEN s[Len(s)] ELSE m

\* str.strip() leaves a non-empty string
RECURSIVE StripNonEmpty(_)
StripNonEmpty(s) ==
    IF s = <<>> THEN FALSE
    ELSE IF Head(s) # " " THEN TRUE
    ELSE StripNonEmpty(Tail(s))

AllDigits(s) == \A k \in 1..Len(s) : IsDigit(s[k])

RECURSIVE DigitsToInt(_)
DigitsToInt(s) ==
    IF s = <<>> THEN 0
    ELSE 10 * DigitsToInt(SubSeq(s, 1, Len(s) - 1)) + DigitVal(s[Len(s)])

\* str(y) of a non-negative int
RECURSIVE IntToStr(_)
IntToStr(n) ==
    LET d == <<"0", "1", "2", "3", "4", "5", "6", "7", "8", "9">>
    IN  IF n < 10 THEN <<d[n + 1]>>
        ELSE Append(IntToStr(n \div 10), d[(n % 10) + 1])

-----------------------------------------------------------------------------
(* Timestamps *)

NaT == 0

MkDate(y, m, d) == y * 10000 + m * 100 + d

IsLeap(y) == (y % 4 = 0 /\ y % 100 # 0) \/ y % 400 = 0

DaysIn(y, m) ==
    IF m = 2 THEN (IF IsLeap(y) THEN 29 ELSE 28)
    ELSE IF m \in {4, 6, 9, 11} THEN 30 ELSE 31

\* positions of "-" in s
Dashes(s) == {k \in 1..Len(s) : s[k] = "-"}

\* pd.to_datetime(s, errors="coerce") on the strings the model feeds it:
\* YYYY-M[M]-D[D] with a real calendar day is that day, all else is NaT
to_datetime(s) ==
    IF Cardinality(Dashes(s)) # 2 THEN NaT
    ELSE LET p1 == CHOOSE k \in Dashes(s) : \A j \in Dashes(s) : k <= j
             p2 == CHOOSE k \in Dashes(s) : \A j \in Dashes(s) : k >= j
             ys == SubSeq(s, 1, p1 - 1)
             ms == SubSeq(s, p1 + 1, p2 - 1)
             ds == SubSeq(s, p2 + 1, Len(s))
         IN  IF /\ Len(ys) = 4 /\ AllDigits(ys)
                /\ Len(ms) \in {1, 2} /\ AllDigits(ms)
                /\ Len(ds) \in {1, 2} /\ AllDigits(ds)
                /\ DigitsToInt(ms) \in 1..12
                /\ DigitsToInt(ds) \in 1..DaysIn(DigitsToInt(ys), DigitsToInt(ms))
             THEN MkDate(DigitsToInt(ys), DigitsToInt(ms), DigitsToInt(ds))
             ELSE NaT

-----------------------------------------------------------------------------
(* Cells of the summary table *)

IntCell(n) == [t |-> "int", n |-> n, s |-> <<>>]
StrCell(s) == [t |-> "str", n |-> 0, s |-> s]
TsCell(d) == [t |-> "ts", n |-> d, s |-> <<>>]
NaN == [t |-> "nan", n |-> 0, s |-> <<>>]

NoLabel == "nan"

\* pd.notna(cell)
notna(c) == c.t # "nan" /\ ~(c.t = "ts" /\ c.n = NaT)

\* int(cell): [ok |-> FALSE] stands for the exception int() raises
PyInt(c) ==
    IF c.t = "int" THEN [ok |-> TRUE, n |-> c.n]
    ELSE IF c.t = "str" /\ c.s # <<>> /\ AllDigits(c.s)
         THEN [ok |-> TRUE, n |-> DigitsToInt(c.s)]
    ELSE [ok |-> FALSE, n |-> 0]

\* variant: a cell that does not coerce is filled with 2025
to_numeric_filled(c) ==
    IF c.t = "int" THEN c
    ELSE IF c.t = "str" /\ c.s # <<>> /\ AllDigits(c.s)
         THEN IntCell(DigitsToInt(c.s))
    ELSE IntCell(2025)

\* pd.to_numeric(cell, errors="coerce") then .astype("Int64")
to_numeric(c) ==
    IF c.t = "int" THEN c
    ELSE IF c.t = "str" /\ c.s # <<>> /\ AllDigits(c.s)
         THEN IntCell(DigitsToInt(c.s))
    ELSE NaN

\* f"{state}_{bill_number}"
Key(state, bill_number) == state \o "_" \o bill_number

-----------------------------------------------------------------------------
(* Input values *)

D_2025_03_01 == <<"2", "0", "2", "5", "-", "0", "3", "-", "0", "1">>
D_2025_3_01 == <<"2", "0", "2", "5", "-", "3", "-", "0", "1">>
D_2025_11_15 == <<"2", "0", "2", "5", "-", "1", "1", "-", "1", "5">>
D_2025_06_30 == <<"2", "0", "2", "5", "-", "0", "6", "-", "3", "0">>
D_2024_02_10 == <<"2", "0", "2", "4", "-", "0", "2", "-", "1", "0">>
S_na == <<"n", "/", "a">>
S_blank == <<" ", " ">>
S_2026 == <<"2", "0", "2", "6">>

Ev(d) == [obj |-> TRUE, date |-> d]
BadEv == [obj |-> FALSE, date |-> <<>>]

Unreadable == [kind |-> "unreadable", state |-> "None", bill_number |-> "None",
               history |-> <<>>, progress |-> <<>>, texts |-> <<>>]
TopLevelList == [kind |-> "list", state |-> "None", bill_number |-> "None",
                 history |-> <<>>, progress |-> <<>>, texts |-> <<>>]
Obj(st, bn, h, p, x) == [kind |-> "object", state |-> st, bill_number |-> bn,
                         history |-> h, progress |-> p, texts |-> x]

Row(st, bn, ss, se, lad, c) ==
    [state |-> st, bill_number |-> bn, session_start |-> ss,
     session_end |-> se, last_action_date |-> lad, completed |-> c]

LoadFiles ==
    { Unreadable,
      TopLevelList,
      Obj("RI", "H5169", <<Ev(D_2025_03_01)>>, <<BadEv>>, <<>>),
      Obj("RI", "H5169", <<Ev(D_2025_03_01)>>, <<Ev(<<>>)>>, <<Ev(D_2025_11_15)>>),
      Obj("RI", "H5169", <<Ev(D_2025_11_15)>>, <<>>, <<Ev(D_2025_3_01)>>),
      Obj("RI", "H5169", <<>>, <<Ev(S_na)>>, <<>>),
      Obj("NY", "S0060", <<Ev(D_2024_02_10)>>, <<>>, <<>>) }

LoadRows ==
    { Row("RI", "H5169", IntCell(2025), IntCell(2026), NaN, IntCell(0)),
      Row("RI", "H5169", IntCell(2025), IntCell(2026), StrCell(D_2025_06_30), IntCell(1)),
      Row("RI", "H5169", IntCell(2025), IntCell(2026), StrCell(S_na), IntCell(0)),
      Row("RI", "H5169", NaN, NaN, StrCell(S_na), NaN),
      Row("RI", "H5169", StrCell(S_na), StrCell(S_2026), StrCell(S_blank), IntCell(2)) }

UIFiles ==
    { Unreadable,
      Obj("RI", "H5169", <<Ev(D_2025_03_01)>>, <<>>, <<Ev(D_2025_11_15)>>) }

UIRows ==
    { Row("RI", "H5169", IntCell(2025), IntCell(2026), NaN, IntCell(0)),
      Row("NY", "S0060", IntCell(2026), IntCell(2026), NaN, IntCell(1)),
      Row("NY", "A1001", IntCell(2024), IntCell(2024), NaN, IntCell(0)),
      Row("RI", "H5169", NaN, IntCell(2026), NaN, IntCell(1)),
      Row("NY", "S0060", StrCell(S_na), StrCell(S_2026), NaN, IntCell(0)),
      Row("RI", "S0700", IntCell(2025), IntCell(2026), NaN, NaN) }

\* pd.read_csv: the rows under a RangeIndex; the derived columns do not
\* exist yet and are held as NaT / NoLabel until they are assigned
read_csv(rows) ==
    [i \in 1..Len(rows) |->
        [index |-> i, state |-> rows[i].state,
         bill_number |-> rows[i].bill_number,
         session_start |-> rows[i].session_start,
         session_end |-> rows[i].session_end,
         last_action_date |-> rows[i].last_action_date,
         completed |-> rows[i].completed,
         start_date |-> NaT, end_date |-> NaT, completion_label |-> NoLabel]]

SeqsUpTo(S, n) == UNION {[1..k -> S] : k \in 0..n}

EmptyMap == [k \in {} |-> <<>>]

-----------------------------------------------------------------------------
(* Initial states: line 19 has read the summary table, the maps are empty *)

InitWith(R, F, maxRows, maxFiles) ==
    /\ csv \in SeqsUpTo(R, maxRows) \ {<<>>}
    /\ files \in SeqsUpTo(F, maxFiles)
    /\ pc = "scan"
    /\ fi = 1
    /\ start_map = EmptyMap
    /\ end_map = EmptyMap
    /\ df = read_csv(csv)
    /\ available_years = {}
    /\ state_options = {}
    /\ widgets_set = FALSE
    /\ year_selection = {}
    /\ state_selection = {}
    /\ comp_selection = {}
    /\ filtered = <<>>
    /\ tl = <<>>
    /\ metrics = <<0, 0, 0>>
    /\ loaded = <<>>

Init == InitWith(UIRows, UIFiles, MaxRowsUI, MaxFilesUI)

InitLoad == InitWith(LoadRows, LoadFiles, MaxRows, MaxFiles)

-----------------------------------------------------------------------------
(* Lines 35-51: the scan of bills_raw *)

Events(j) == j.history \o j.progress \o j.texts

\* the dates list of lines 43-48: every truthy "date", in array order
RECURSIVE DatesOf(_)
DatesOf(evs) ==
    IF evs = <<>> THEN <<>>
    ELSE IF Head(evs).date # <<>> THEN <<Head(evs).date>> \o DatesOf(Tail(evs))
    ELSE DatesOf(Tail(evs))

\* j.get / it.get on a value that is not a dict raises AttributeError,
\* outside the try block of lines 37-41
ScanRaises(j) ==
    \/ j.kind = "list"
    \/ j.kind = "object" /\ \E k \in 1..Len(Events(j)) : ~Events(j)[k].obj

MapSet(m, k, v) == [x \in DOMAIN m \cup {k} |-> IF x = k THEN v ELSE m[x]]

ScanFile ==
    /\ pc = "scan"
    /\ fi <= Len(files)
    /\ LET j == files[fi]
           key == Key(j.state, j.bill_number)
           dates == DatesOf(Events(j))
       IN  IF j.kind = "unreadable"
           THEN /\ pc' = IF fi = Len(files) THEN "resolve" ELSE "scan"
                /\ UNCHANGED <<start_map, end_map>>
           ELSE IF ScanRaises(j)
           THEN /\ pc' = "aborted"
                /\ UNCHANGED <<start_map, end_map>>
           ELSE /\ pc' = IF fi = Len(files) THEN "resolve" ELSE "scan"
                /\ IF dates # <<>>
                   THEN /\ start_map' = MapSet(start_map, key, PyMin(dates))
                        /\ end_map' = MapSet(end_map, key, PyMax(dates))
                   ELSE UNCHANGED <<start_map, end_map>>
    /\ fi' = fi + 1
    /\ UNCHANGED <<files, csv, df, available_years, state_options, widgets_set,
                   year_selection, state_selection, comp_selection, filtered,
                   tl, metrics, loaded>>

\* line 35: no *.json, the loop is skipped
NoFiles ==
    /\ pc = "scan"
    /\ Len(files) = 0
    /\ pc' = "resolve"
    /\ UNCHANGED <<files, csv, fi, start_map, end_map, df, available_years,
                   state_options, widgets_set, year_selection, state_selection,
                   comp_selection, filtered, tl, metrics, loaded>>

-----------------------------------------------------------------------------
(* Lines 53-87: the date resolver *)

S_jan01 == <<"-", "0", "1", "-", "0", "1">>
S_dec31 == <<"-", "1", "2", "-", "3", "1">>
StartFallback == 20200101
EndFallback == 20251231

\* variant: January 1 is built from session_end
_to_start_from_session_end(row, smap) ==
    LET key == Key(row.state, row.bill_number)
        y == PyInt(row.session_end)
        jan == to_datetime(IntToStr(y.n) \o S_jan01)
    IN  IF key \in DOMAIN smap /\ to_datetime(smap[key]) # NaT
        THEN to_datetime(smap[key])
        ELSE IF y.ok /\ jan # NaT THEN jan
        ELSE StartFallback

_to_start(row, smap) ==
    LET key == Key(row.state, row.bill_number)
        y == PyInt(row.session_start)
        jan == to_datetime(IntToStr(y.n) \o S_jan01)
    IN  IF key \in DOMAIN smap /\ to_datetime(smap[key]) # NaT
        THEN to_datetime(smap[key])
        ELSE IF y.ok /\ jan # NaT THEN jan
        ELSE StartFallback

\* variant: the supplemental date is tried before last_action_date
_to_end_supplemental_first(row, emap) ==
    LET lad == row.last_action_date
        key == Key(row.state, row.bill_number)
        y == PyInt(row.session_end)
        dec == to_datetime(IntToStr(y.n) \o S_dec31)
    IN  IF key \in DOMAIN emap /\ to_datetime(emap[key]) # NaT
        THEN to_datetime(emap[key])
        ELSE IF notna(lad) /\ StripNonEmpty(lad.s) /\ to_datetime(lad.s) # NaT
        THEN to_datetime(lad.s)
        ELSE IF y.ok /\ dec # NaT THEN dec
        ELSE EndFallback

\* variant: an unparseable session_end leaves the end date unresolved
_to_end_unresolved(row, emap) ==
    LET lad == row.last_action_date
        key == Key(row.state, row.bill_number)
        y == PyInt(row.session_end)
        dec == to_datetime(IntToStr(y.n) \o S_dec31)
    IN  IF notna(lad) /\ StripNonEmpty(lad.s) /\ to_datetime(lad.s) # NaT
        THEN to_datetime(lad.s)
        ELSE IF key \in DOMAIN emap /\ to_datetime(emap[key]) # NaT
        THEN to_datetime(emap[key])
        ELSE IF y.ok /\ dec # NaT THEN dec
        ELSE NaT

_to_end(row, emap) ==
    LET lad == row.last_action_date
        key == Key(row.state, row.bill_number)
        y == PyInt(row.session_end)
        dec == to_datetime(IntToStr(y.n) \o S_dec31)
    IN  IF notna(lad) /\ StripNonEmpty(lad.s) /\ to_datetime(lad.s) # NaT
        THEN to_datetime(lad.s)
        ELSE IF key \in DOMAIN emap /\ to_datetime(emap[key]) # NaT
        THEN to_datetime(emap[key])
        ELSE IF y.ok /\ dec # NaT THEN dec
        ELSE EndFallback

\* lines 86-87: df.apply(..., axis=1), one value per row
Resolve ==
    /\ pc = "resolve"
    /\ df' = [i \in 1..Len(df) |->
                [df[i] EXCEPT !.start_date = _to_start(df[i], start_map),
                              !.end_date = _to_end(df[i], end_map)]]
    /\ pc' = "convert"
    /\ UNCHANGED <<files, csv, fi, start_map, end_map, available_years,
                   state_options, widgets_set, year_selection, state_selection,
                   comp_selection, filtered, tl, metrics, loaded>>

-----------------------------------------------------------------------------
(* Lines 90-93: column conversions and the completion label *)

\* pd.to_datetime(df["last_action_date"], errors="coerce")
lad_to_datetime(c) == IF c.t = "str" THEN TsCell(to_datetime(c.s)) ELSE TsCell(NaT)

\* df["completed"].map({1: "Completed", 0: "Not Completed"})
completion_label(c) ==
    IF c.t = "int" /\ c.n = 1 THEN "Completed"
    ELSE IF c.t = "int" /\ c.n = 0 THEN "Not Completed"
    ELSE NoLabel

Convert ==
    /\ pc = "convert"
    /\ df' = [i \in 1..Len(df) |->
                [df[i] EXCEPT
                    !.last_action_date = lad_to_datetime(df[i].last_action_date),
                    !.session_start = to_numeric(df[i].session_start),
                    !.completion_label = completion_label(df[i].completed)]]
    /\ loaded' = IF widgets_set THEN loaded ELSE df'
    /\ pc' = "sidebar"
    /\ UNCHANGED <<files, csv, fi, start_map, end_map, available_years,
                   state_options, widgets_set, year_selection, state_selection,
                   comp_selection, filtered, tl, metrics>>

NextLoad == ScanFile \/ NoFiles \/ Resolve \/ Convert

LoadSpec == InitLoad /\ [][NextLoad]_vars

-----------------------------------------------------------------------------
(* Lines 111-130: the sidebar widgets *)

\* sorted(df[col].dropna().unique()); the order of the options is not modelled
years_of(d) == {d[i].session_start.n : i \in {k \in 1..Len(d) : d[k].session_start.t = "int"}}
states_of(d) == {d[i].state : i \in 1..Len(d)}

\* variant: the latest year present is the default
year_default_latest(av) ==
    IF av = {} THEN av ELSE {CHOOSE y \in av : \A z \in av : z <= y}

\* line 116
year_default(av) == IF 2025 \in av THEN {2025} ELSE av

CompLabels == {"Completed", "Not Completed"}

\* comp_label_map and line 130
comp_values(sel) == {IF x = "Completed" THEN 1 ELSE 0 : x \in sel}

\* st.multiselect: the default until the user sets the widget, the
\* session's value afterwards
multiselect(isSet, current, default) == IF isSet THEN current ELSE default

Sidebar ==
    /\ pc = "sidebar"
    /\ available_years' = years_of(df)
    /\ state_options' = states_of(df)
    /\ year_selection' = multiselect(widgets_set, year_selection, year_default(years_of(df)))
    /\ state_selection' = multiselect(widgets_set, state_selection, states_of(df))
    /\ comp_selection' = multiselect(widgets_set, comp_selection, CompLabels)
    /\ pc' = "filter"
    /\ UNCHANGED <<files, csv, fi, start_map, end_map, df, widgets_set, filtered,
                   tl, metrics, loaded>>

-----------------------------------------------------------------------------
(* Lines 135-139: the filter *)

isin_cell(c, vals) == c.t = "int" /\ c.n \in vals

\* variant: the state predicate is left out
passes_without_state(r, ys, ss, cv) ==
    /\ isin_cell(r.session_start, ys)
    /\ isin_cell(r.completed, cv)

passes(r, ys, ss, cv) ==
    /\ isin_cell(r.session_start, ys)
    /\ r.state \in ss
    /\ isin_cell(r.completed, cv)

apply_filters(d, ys, ss, cv) == SelectSeq(d, LAMBDA r : passes(r, ys, ss, cv))

ApplyFilters ==
    /\ pc = "filter"
    /\ filtered' = apply_filters(df, year_selection, state_selection,
                                 comp_values(comp_selection))
    /\ pc' = "render"
    /\ UNCHANGED <<files, csv, fi, start_map, end_map, df, available_years,
                   state_options, widgets_set, year_selection, state_selection,
                   comp_selection, tl, metrics, loaded>>

-----------------------------------------------------------------------------
(* Lines 144-252: metrics, timeline, table, export *)

RECURSIVE completed_sum(_)
completed_sum(f) ==
    IF f = <<>> THEN 0 ELSE Head(f).completed.n + completed_sum(Tail(f))

\* lines 189-190: tl = filtered.copy() with the bill_label column
timeline_of(f) ==
    [i \in 1..Len(f) |->
        [index |-> f[i].index, state |-> f[i].state,
         bill_number |-> f[i].bill_number,
         start_date |-> f[i].start_date, end_date |-> f[i].end_date,
         completion_label |-> f[i].completion_label,
         bill_label |-> f[i].state \o " - " \o f[i].bill_number]]

\* variant: tl aliases filtered, which then gains the bill_label column
filtered_aliased_by_tl(f) == timeline_of(f)

\* filtered after lines 186-252: tl is a copy, filtered itself is only read
filtered_after_render(f) == f

Render ==
    /\ pc = "render"
    /\ metrics' = <<Len(filtered), completed_sum(filtered),
                    Len(filtered) - completed_sum(filtered)>>
    /\ tl' = IF filtered = <<>> THEN tl ELSE timeline_of(filtered)
    /\ filtered' = filtered_after_render(filtered)
    /\ pc' = "idle"
    /\ UNCHANGED <<files, csv, fi, start_map, end_map, df, available_years,
                   state_options, widgets_set, year_selection, state_selection,
                   comp_selection, loaded>>

-----------------------------------------------------------------------------
(* A change of one multiselect: the widget keeps the new value and the      *)
(* script runs again from its first line                                    *)

UserSelect ==
    /\ pc = "idle"
    /\ \/ /\ year_selection' \in (SUBSET available_years) \ {year_selection}
          /\ UNCHANGED <<state_selection, comp_selection>>
       \/ /\ state_selection' \in (SUBSET state_options) \ {state_selection}
          /\ UNCHANGED <<year_selection, comp_selection>>
       \/ /\ comp_selection' \in (SUBSET CompLabels) \ {comp_selection}
          /\ UNCHANGED <<year_selection, state_selection>>
    /\ pc' = "scan"
    /\ fi' = 1
    /\ start_map' = EmptyMap
    /\ end_map' = EmptyMap
    /\ df' = read_csv(csv)
    /\ available_years' = {}
    /\ state_options' = {}
    /\ filtered' = <<>>
    /\ tl' = <<>>
    /\ metrics' = <<0, 0, 0>>
    /\ widgets_set' = TRUE
    /\ UNCHANGED <<files, csv, loaded>>

Next ==
    \/ ScanFile
    \/ NoFiles
    \/ Resolve
    \/ Convert
    \/ Sidebar
    \/ ApplyFilters
    \/ Render
    \/ UserSelect

Spec == Init /\ [][Next]_vars

-----------------------------------------------------------------------------
(* Properties of the loader and the date resolver (LoadSpec) *)

Resolved == {"convert", "sidebar", "filter", "render", "idle"}

RowKey(i) == Key(csv[i].state, csv[i].bill_number)

\* the supplemental files that parsed into a record of the key of row i
RecordsOf(i) ==
    {k \in 1..Len(files) :
        /\ files[k].kind = "object"
        /\ ~ScanRaises(files[k])
        /\ Key(files[k].state, files[k].bill_number) = RowKey(i)}

\* the event dates of file k, as dates
EventDates(k) ==
    {to_datetime(DatesOf(Events(files[k]))[n]) :
        n \in 1..Len(DatesOf(Events(files[k])))} \ {NaT}

Earliest(S) == CHOOSE x \in S : \A y \in S : x <= y
Latest(S) == CHOOSE x \in S : \A y \in S : x >= y

LadAbsent(i) == csv[i].last_action_date = NaN

LadValid(i) ==
    /\ csv[i].last_action_date.t = "str"
    /\ to_datetime(csv[i].last_action_date.s) # NaT

\* C1: a bill whose key has a parsed supplemental record with at least one
\* dated event starts on the chronologically earliest event date of such a
\* record and, when last_action_date is absent, ends on its latest one.
C1_EarliestLatestEvent ==
    pc \in Resolved =>
        \A i \in 1..Len(df) :
            (\E k \in RecordsOf(i) : EventDates(k) # {}) =>
                \E k \in RecordsOf(i) :
                    /\ EventDates(k) # {}
                    /\ df[i].start_date = Earliest(EventDates(k))
                    /\ LadAbsent(i) => df[i].end_date = Latest(EventDates(k))

\* C2: _to_end tries last_action_date, then the supplemental latest date,
\* then December 31 of session_end, then the fixed date: a valid
\* last_action_date always wins, an empty, blank or malformed one hands the
\* decision to the next tier, and the resolver never aborts the run.
C2_EndTierOrder ==
    /\ pc \in Resolved =>
        \A i \in 1..Len(df) :
            IF LadValid(i)
            THEN df[i].end_date = to_datetime(csv[i].last_action_date.s)
            ELSE IF RowKey(i) \in DOMAIN end_map /\ to_datetime(end_map[RowKey(i)]) # NaT
            THEN df[i].end_date = to_datetime(end_map[RowKey(i)])
            ELSE IF PyInt(csv[i].session_end).ok
            THEN df[i].end_date = MkDate(PyInt(csv[i].session_end).n, 12, 31)
            ELSE df[i].end_date = 20251231
    /\ pc = "aborted" => df = read_csv(csv)

C2_Witness ==
    /\ pc = "convert"
    /\ \E i \in 1..Len(df) :
        /\ LadValid(i)
        /\ RowKey(i) \in DOMAIN end_map
        /\ to_datetime(end_map[RowKey(i)]) # NaT
        /\ to_datetime(end_map[RowKey(i)]) # df[i].end_date
    /\ \E i \in 1..Len(df) :
        /\ csv[i].last_action_date = StrCell(S_na)
        /\ RowKey(i) \in DOMAIN end_map
        /\ df[i].end_date = to_datetime(end_map[RowKey(i)])

\* C3: a bill with no supplemental record and no last_action_date, whose
\* session years are integers, starts on January 1 of session_start and ends
\* on December 31 of session_end.
C3_SessionYearFallback ==
    pc \in Resolved =>
        \A i \in 1..Len(df) :
            ( /\ \A k \in 1..Len(files) :
                    files[k].kind = "object" =>
                        Key(files[k].state, files[k].bill_number) # RowKey(i)
              /\ LadAbsent(i)
              /\ PyInt(csv[i].session_start).ok
              /\ PyInt(csv[i].session_end).ok )
            => /\ df[i].start_date = MkDate(PyInt(csv[i].session_start).n, 1, 1)
               /\ df[i].end_date = MkDate(PyInt(csv[i].session_end).n, 12, 31)

C3_Witness ==
    /\ pc = "convert"
    /\ Len(files) > 0
    /\ \E i \in 1..Len(df) :
        /\ \A k \in 1..Len(files) :
              files[k].kind = "object" =>
                  Key(files[k].state, files[k].bill_number) # RowKey(i)
        /\ LadAbsent(i)
        /\ df[i].start_date = 20250101
        /\ df[i].end_date = 20261231

\* C4: the resolution step is total: every row of the summary table yields
\* exactly one row of the dataframe, in place, with a start_date and an
\* end_date that are not NaT, whatever its cells and the maps hold.
C4_ResolutionTotal ==
    pc \in Resolved =>
        /\ Len(df) = Len(csv)
        /\ \A i \in 1..Len(df) :
            /\ df[i].index = i
            /\ df[i].state = csv[i].state
            /\ df[i].bill_number = csv[i].bill_number
            /\ df[i].start_date # NaT
            /\ df[i].end_date # NaT

C4_Witness ==
    /\ pc = "convert"
    /\ Len(df) = 2
    /\ \E i \in 1..Len(df) :
        /\ csv[i].session_start = NaN
        /\ csv[i].session_end = NaN
        /\ ~LadValid(i) /\ ~LadAbsent(i)
        /\ RowKey(i) \in DOMAIN end_map
        /\ to_datetime(end_map[RowKey(i)]) = NaT
        /\ df[i].end_date = 20251231

\* Python truthiness of a completed cell: 0 is falsy, any other number and
\* the float nan of an empty cell are truthy
Truthy(c) == ~(c.t = "int" /\ c.n = 0)

\* C6: completion_label is "Completed" exactly for a truthy completed and
\* "Not Completed" otherwise; no bill has a third or a missing label.
C6_CompletionLabelTotal ==
    pc \in (Resolved \ {"convert"}) =>
        \A i \in 1..Len(df) :
            /\ df[i].completion_label \in {"Completed", "Not Completed"}
            /\ df[i].completion_label = "Completed" <=> Truthy(csv[i].completed)

\* C8: a supplemental file that is unreadable or of an unexpected shape is
\* skipped on its own: the run is not aborted, the file adds nothing to the
\* maps, and every other file is still processed.
C8_MalformedFileSkipped ==
    /\ pc # "aborted"
    /\ pc \in Resolved =>
        \A k \in 1..Len(files) :
            (files[k].kind = "object" /\ ~ScanRaises(files[k])
                /\ DatesOf(Events(files[k])) # <<>>)
            => Key(files[k].state, files[k].bill_number) \in DOMAIN start_map

-----------------------------------------------------------------------------
(* Properties of the sidebar, the filter and the rendering (Spec) *)

Filtered == {"render", "idle"}

InYears(i) == \E y \in year_selection : df[i].session_start = IntCell(y)
InStates(i) == \E st \in state_selection : df[i].state = st
InCompletion(i) ==
    \/ "Completed" \in comp_selection /\ df[i].completed = IntCell(1)
    \/ "Not Completed" \in comp_selection /\ df[i].completed = IntCell(0)

Matching == {i \in 1..Len(df) : InYears(i) /\ InStates(i) /\ InCompletion(i)}

FilteredIndex == {filtered[k].index : k \in 1..Len(filtered)}

\* C5: the filtered subset is exactly the bills whose session_start is in
\* the selected years and state in the selected states and completed in the
\* selected completion values; one empty selection leaves no row.
C5_FilterConjunction ==
    pc \in Filtered =>
        /\ FilteredIndex = Matching
        /\ Len(filtered) = Cardinality(Matching)
        /\ (year_selection = {} \/ state_selection = {} \/ comp_selection = {})
            => Len(filtered) = 0

C5_Witness ==
    /\ pc = "idle"
    /\ state_selection = {}
    /\ \E i \in 1..Len(df) : InYears(i) /\ InCompletion(i)
    /\ \E i \in 1..Len(df) : ~InYears(i) /\ df[i].session_start.t = "int"
    /\ filtered = <<>>

MostRecent(av) == IF av = {} THEN av ELSE {Latest(av)}

FirstRun == pc \in {"filter", "render", "idle"} /\ ~widgets_set

\* C7 as stated: before any user input the year selection is the most
\* recent session-start year present, or all years when there is none, and
\* the state and completion selections are all available values.
C7_DefaultMostRecentYear ==
    FirstRun =>
        /\ year_selection = MostRecent(available_years)
        /\ state_selection = state_options
        /\ comp_selection = {"Completed", "Not Completed"}

\* C7 amended: before any user input the year selection is {2025} when 2025
\* is a session-start year of the dataset and all available years otherwise;
\* the state and completion selections are all available values.
C7_Default2025 ==
    FirstRun =>
        /\ available_years = {df[i].session_start.n :
                i \in {k \in 1..Len(df) : df[k].session_start.t = "int"}}
        /\ state_options = {df[i].state : i \in 1..Len(df)}
        /\ 2025 \in available_years => year_selection = {2025}
        /\ 2025 \notin available_years => year_selection = available_years
        /\ state_selection = state_options
        /\ comp_selection = {"Completed", "Not Completed"}

C7_Witness ==
    /\ FirstRun
    /\ available_years = {2025, 2026}
    /\ year_selection = {2025}
    /\ Cardinality(state_selection) = 2

\* C9: after any sequence of selection changes the dataset is the one the
\* first run loaded, filtering and rendering leave it as it is, and the
\* filtered subset is exactly the rows of the dataset that match the
\* current selections.
C9_DatasetUntouched ==
    /\ pc \in {"sidebar", "filter", "render", "idle"} => df = loaded
    /\ pc \in Filtered =>
        /\ \A k \in 1..Len(filtered) :
              /\ filtered[k].index \in 1..Len(df)
              /\ filtered[k] = df[filtered[k].index]
        /\ \A i \in 1..Len(df) :
              (InYears(i) /\ InStates(i) /\ InCompletion(i))
                  <=> \E k \in 1..Len(filtered) : filtered[k].index = i
        /\ \A k, m \in 1..Len(filtered) :
              k < m => filtered[k].index < filtered[m].index

C9_Witness ==
    /\ pc = "idle"
    /\ widgets_set
    /\ Len(df) = 2
    /\ year_selection = available_years
    /\ 2025 \in available_years /\ Cardinality(available_years) = 2
    /\ Cardinality(state_selection) = 1 /\ Cardinality(state_options) = 2
    /\ comp_selection = {"Completed"}
    /\ Len(filtered) = 1
    /\ tl # <<>>

\* the rows whose session_start cell is missing or not numeric
NoYear(i) == csv[i].session_start = NaN \/ csv[i].session_start = StrCell(S_na)

NeverShown(i) ==
    /\ pc \in {"sidebar", "filter", "render", "idle"} => df[i].session_start = NaN
    /\ \A y \in available_years \cup year_selection : df[i].session_start # IntCell(y)
    /\ \A k \in 1..Len(filtered) : filtered[k].index # i
    /\ \A k \in 1..Len(tl) : tl[k].index # i
    /\ pc = "idle" => metrics[1] <= Len(df) - 1

====
